---- MODULE Spec2Model ----
(***************************************************************************)
(* Model of advanced-vector/vector.h: RawMemory<T> (an owning handle to a  *)
(* block of uninitialized memory) and Vector<T> (a RawMemory plus a count  *)
(* of constructed elements).                                               *)
(*                                                                         *)
(* The heap is a map from addresses to blocks; a block is a sequence of    *)
(* slots, each slot being raw memory or a constructed element value.       *)
(* Every operation of the two classes is one action; element operations    *)
(* that may throw are counted, and an input of the action chooses which    *)
(* of them (if any) throws, and whether operator new throws.               *)
(***************************************************************************)
EXTENDS Integers, Sequences, FiniteSets, TLC

\* ------------------------------------------------------------------ bounds
MaxCap == 4        \* largest capacity a Vector reaches under Spec
MaxPairCap == 2    \* largest capacity of each Vector under SpecPair
MaxRawCap == 2     \* largest capacity of a stand-alone RawMemory under SpecRaw
MaxVal == 1        \* element values are 0..MaxVal


\* --------------------------------------------------------- memory contents
Raw == -1          \* a slot of uninitialized memory, as Allocate returns it
Moved == -2        \* an element in the valid but unspecified moved-from state
DefaultVal == 0    \* the value of a value-initialized T
Null == 0          \* nullptr

Values == 0..MaxVal
\* No operation within the bounds runs more than MaxCap + 1 element operations
\* that may throw; fault k in 1..MaxFail makes the k-th throw, fault 0
\* none, fault AllocFault makes operator new throw.
MaxFail == MaxCap + 1
AllocFault == MaxFail + 1
Faults == 0..AllocFault
NoBlock == << >>   \* an address that is not allocated

VARIABLES
  heap,    \* [Addrs -> block], NoBlock where nothing is allocated
  vec,     \* the Vector objects: [alive, data: [buffer, capacity], size]
  raw,     \* the stand-alone RawMemory objects: [alive, buffer, capacity]
  ttype,   \* the element type T the behaviour instantiates the templates with
  objs,    \* the Vector objects the behaviour operates on
  capLimit,\* capacities of the behaviour stay within this limit
  last     \* what the last operation was and how it ended

vars == << heap, vec, raw, ttype, objs, capLimit, last >>

VecNames == {"a", "b"}
AllVecs == VecNames \cup {"tmp"}      \* "tmp" is the local of operator=
RawNames == {"r1", "r2"}
\* One address for the buffer of each Vector and one for the buffer an
\* operation builds while the old one is still there.
Addrs == 1..(Cardinality(VecNames) + 1)

\* ------------------------------------------------------ the element type T
\* NothrowMove: copyable, move construction and assignment are noexcept.
\* ThrowingMove: copyable, moves may throw.  MoveOnly: not copyable, moves
\* may throw.
TTypes == {"NothrowMove", "ThrowingMove", "MoveOnly"}
IsNothrowMove == ttype = "NothrowMove"
IsCopyable == ttype # "MoveOnly"
\* the condition of every if constexpr of the class
UseMove == IsNothrowMove \/ ~IsCopyable

\* ------------------------------------------------------------- the machine
\* The state an operation runs on: the heap, the Vector objects, and the
\* bookkeeping of failures.  budget = k > 0: the k-th element operation that
\* may throw does throw; budget = 0: none does.
NullRaw == [buffer |-> Null, capacity |-> 0]
DeadVec == [alive |-> FALSE, data |-> NullRaw, size |-> 0]
DeadRaw == [alive |-> FALSE, buffer |-> Null, capacity |-> 0]

\* log is the sequence of the events of the call so far, it the iterator the
\* call returns.
NoIter == [buffer |-> Null, offset |-> 0]

World(h, vs, f, af) ==
  [heap |-> h, vec |-> vs, budget |-> f, allocFail |-> af, exc |-> "none",
   leaked |-> 0, dd |-> FALSE, df |-> FALSE, ret |-> NullRaw,
   log |-> << >>, it |-> NoIter]

\* An event: what happened (allocate, deallocate, construct, destroy, assign,
\* move_from, new_value, swap), the block, and the slot (the number of slots
\* for allocate).
Ev(e, p, i) == [e |-> e, p |-> p, i |-> i]
Log(w, e, p, i) == [w EXCEPT !.log = Append(@, Ev(e, p, i))]

Ok(w) == w.exc = "none"

\* One element operation that may throw.
Tick(w) ==
  IF w.budget = 1 THEN [w EXCEPT !.budget = 0, !.exc = "elem"]
  ELSE IF w.budget > 1 THEN [w EXCEPT !.budget = @ - 1]
  ELSE w

\* An element operation that throws only when `may` holds.
TickIf(w, may) == IF may THEN Tick(w) ELSE w

FreeAddr(h) == CHOOSE p \in Addrs : h[p] = NoBlock /\ \A q \in Addrs : h[q] = NoBlock => p <= q

LiveCount(blk) == Cardinality({i \in 1..Len(blk) : blk[i] # Raw})

\* RawMemory::Allocate: n raw slots, or nullptr for n = 0; ret.buffer is the
\* address.
Allocate(w, n) ==
  IF n = 0 THEN [w EXCEPT !.ret = NullRaw]
  ELSE IF w.allocFail THEN [w EXCEPT !.exc = "bad_alloc"]
  ELSE LET p == FreeAddr(w.heap) IN
       [Log(w, "allocate", p, n) EXCEPT !.heap[p] = [i \in 1..n |-> Raw],
                                        !.ret = [buffer |-> p, capacity |-> n]]

\* RawMemory::Deallocate: operator delete.  Elements still constructed in
\* the block are never destroyed (leaked); deleting an address that is not
\* allocated is a double free.
Deallocate(w, p) ==
  IF p = Null THEN w
  ELSE IF w.heap[p] = NoBlock THEN [w EXCEPT !.df = TRUE]
  ELSE [Log(w, "deallocate", p, 0) EXCEPT !.leaked = @ + LiveCount(w.heap[p]),
                                          !.heap[p] = NoBlock]

\* RawMemory(size_t capacity): ret is the new object.
RawCtor(w, n) ==
  LET a == Allocate(w, n) IN
  IF Ok(a) THEN [a EXCEPT !.ret = [buffer |-> a.ret.buffer, capacity |-> n]] ELSE a

\* A move constructor that copies the members and leaves other as it was.
RawMoveCtorKeepsSource(other) == << other, other >>

\* RawMemory(RawMemory&& other): <<the new object, other afterwards>>.
RawMoveCtor(other) == << other, NullRaw >>

\* RawMemory::Swap: <<this afterwards, other afterwards>>.
RawSwap(this, other) ==
  << [buffer |-> other.buffer, capacity |-> other.capacity],
     [buffer |-> this.buffer, capacity |-> this.capacity] >>

\* RawMemory::operator=(RawMemory&& rhs), this and rhs distinct objects.
RawMoveAssign(this, rhs) == RawSwap(this, rhs)

\* ~RawMemory.
RawDtor(w, r) == Deallocate(w, r.buffer)

\* ------------------------------------------------- element-level primitives
\* Offsets are 0-based as in the code; slot i of block p is heap[p][i + 1].
InBlock(w, p, i) == p # Null /\ i >= 0 /\ i < Len(w.heap[p])

\* The value read through a reference to slot i (Raw: no object there).
At(w, p, i) == IF InBlock(w, p, i) THEN w.heap[p][i + 1] ELSE Raw

\* std::construct_at / placement new of an element with value val.  A value
\* read from raw memory is indeterminate; constructing over a live element
\* loses that element without destroying it.
ConstructAt(w, p, i, val) ==
  IF ~InBlock(w, p, i) THEN [w EXCEPT !.dd = TRUE]
  ELSE [Log(w, "construct", p, i) EXCEPT
          !.heap[p][i + 1] = IF val = Raw THEN Moved ELSE val,
          !.dd = @ \/ val = Raw,
          !.leaked = @ + (IF w.heap[p][i + 1] # Raw THEN 1 ELSE 0)]

\* std::destroy_at: the slot becomes raw memory again; destroying raw memory
\* is a double destruction.
DestroyAt(w, p, i) ==
  IF ~InBlock(w, p, i) \/ At(w, p, i) = Raw THEN [w EXCEPT !.dd = TRUE]
  ELSE [Log(w, "destroy", p, i) EXCEPT !.heap[p][i + 1] = Raw]

\* Assignment to the live element in slot i.
AssignAt(w, p, i, val) ==
  IF ~InBlock(w, p, i) \/ At(w, p, i) = Raw \/ val = Raw THEN [w EXCEPT !.dd = TRUE]
  ELSE [Log(w, "assign", p, i) EXCEPT !.heap[p][i + 1] = val]

\* The element in slot i after it was moved from.
MoveFrom(w, p, i) ==
  IF ~InBlock(w, p, i) \/ At(w, p, i) = Raw THEN [w EXCEPT !.dd = TRUE]
  ELSE [Log(w, "move_from", p, i) EXCEPT !.heap[p][i + 1] = Moved]

\* std::destroy / std::destroy_n on slots [from, to) of block p.
RECURSIVE DestroyRange(_, _, _, _)
DestroyRange(w, p, from, to) ==
  IF from >= to THEN w
  ELSE DestroyRange(DestroyAt(w, p, from), p, from + 1, to)

\* uninitialized_copy that leaves what it constructed when a copy throws.
RECURSIVE UninitializedCopyNoUnwind(_, _, _, _, _, _, _)
UninitializedCopyNoUnwind(w, sp, s0, n, dp, d0, j) ==
  IF j >= n THEN w
  ELSE LET t == Tick(w) IN
       IF ~Ok(t) THEN t
       ELSE UninitializedCopyNoUnwind(ConstructAt(t, dp, d0 + j, At(t, sp, s0 + j)),
                                      sp, s0, n, dp, d0, j + 1)

\* std::uninitialized_copy of slots [s0, s0 + n) of block sp to slots
\* [d0, ...) of block dp; j elements are done.  A throwing copy destroys the
\* j elements already constructed and propagates.
RECURSIVE UninitializedCopy(_, _, _, _, _, _, _)
UninitializedCopy(w, sp, s0, n, dp, d0, j) ==
  IF j >= n THEN w
  ELSE LET t == Tick(w) IN
       IF ~Ok(t) THEN DestroyRange(t, dp, d0, d0 + j)
       ELSE UninitializedCopy(ConstructAt(t, dp, d0 + j, At(t, sp, s0 + j)),
                              sp, s0, n, dp, d0, j + 1)

\* std::uninitialized_copy from a sequence outside the heap (an
\* initializer_list, an iterator range).
RECURSIVE UninitializedCopySeq(_, _, _, _, _)
UninitializedCopySeq(w, vals, dp, d0, j) ==
  IF j >= Len(vals) THEN w
  ELSE LET t == Tick(w) IN
       IF ~Ok(t) THEN DestroyRange(t, dp, d0, d0 + j)
       ELSE UninitializedCopySeq(ConstructAt(t, dp, d0 + j, vals[j + 1]),
                                 vals, dp, d0, j + 1)

\* std::uninitialized_move: each source element is left moved-from.
RECURSIVE UninitializedMove(_, _, _, _, _, _, _)
UninitializedMove(w, sp, s0, n, dp, d0, j) ==
  IF j >= n THEN w
  ELSE LET t == TickIf(w, ~IsNothrowMove) IN
       IF ~Ok(t) THEN DestroyRange(t, dp, d0, d0 + j)
       ELSE UninitializedMove(
              MoveFrom(ConstructAt(t, dp, d0 + j, At(t, sp, s0 + j)), sp, s0 + j),
              sp, s0, n, dp, d0, j + 1)

\* std::uninitialized_value_construct on slots [from, to) of block p; j
\* elements are done.
RECURSIVE UninitializedValueConstruct(_, _, _, _, _)
UninitializedValueConstruct(w, p, from, to, j) ==
  IF from + j >= to THEN w
  ELSE LET t == Tick(w) IN
       IF ~Ok(t) THEN DestroyRange(t, p, from, from + j)
       ELSE UninitializedValueConstruct(ConstructAt(t, p, from + j, DefaultVal),
                                        p, from, to, j + 1)

\* std::uninitialized_fill_n.
RECURSIVE UninitializedFillN(_, _, _, _, _)
UninitializedFillN(w, p, n, val, j) ==
  IF j >= n THEN w
  ELSE LET t == Tick(w) IN
       IF ~Ok(t) THEN DestroyRange(t, p, 0, j)
       ELSE UninitializedFillN(ConstructAt(t, p, j, val), p, n, val, j + 1)

\* std::copy_n / std::copy: copy assignment of n elements, front to back.  A
\* throwing assignment leaves its target with the value it had.
RECURSIVE CopyAssignRange(_, _, _, _, _, _, _)
CopyAssignRange(w, sp, s0, n, dp, d0, j) ==
  IF j >= n THEN w
  ELSE LET t == Tick(w) IN
       IF ~Ok(t) THEN t
       ELSE CopyAssignRange(AssignAt(t, dp, d0 + j, At(t, sp, s0 + j)),
                            sp, s0, n, dp, d0, j + 1)

\* std::move(first, last, d_first) within block p: move assignment, front to
\* back.
RECURSIVE MoveRange(_, _, _, _, _)
MoveRange(w, p, first, lst, dfirst) ==
  IF first >= lst THEN w
  ELSE LET t == TickIf(w, ~IsNothrowMove) IN
       IF ~Ok(t) THEN t
       ELSE MoveRange(MoveFrom(AssignAt(t, p, dfirst, At(t, p, first)), p, first),
                      p, first + 1, lst, dfirst + 1)

\* std::move_backward(first, last, d_last) within block p: move assignment,
\* back to front.
RECURSIVE MoveBackward(_, _, _, _, _)
MoveBackward(w, p, first, lst, dlast) ==
  IF first >= lst THEN w
  ELSE LET t == TickIf(w, ~IsNothrowMove) IN
       IF ~Ok(t) THEN t
       ELSE MoveBackward(
              MoveFrom(AssignAt(t, p, dlast - 1, At(t, p, lst - 1)), p, lst - 1),
              p, first, lst - 1, dlast - 1)

\* OverwriteData that moves whatever T is.
OverwriteDataAlwaysMove(w, sp, s0, n, dp, d0) == UninitializedMove(w, sp, s0, n, dp, d0, 0)

\* Vector::OverwriteData: n elements from slot s0 of sp to slot d0 of dp.
OverwriteData(w, sp, s0, n, dp, d0) ==
  IF UseMove THEN UninitializedMove(w, sp, s0, n, dp, d0, 0)
  ELSE UninitializedCopy(w, sp, s0, n, dp, d0, 0)

\* ------------------------------------------------------ Vector operations
\* Each takes the machine and the names of the objects it works on, and
\* returns the machine afterwards; an operation that throws returns with
\* exc set, after the destructors of its locals have run.
Buf(w, v) == w.vec[v].data.buffer
Cap(w, v) == w.vec[v].data.capacity
Size(w, v) == w.vec[v].size
Min(x, y) == IF x <= y THEN x ELSE y

\* Vector(): empty, no buffer.
VectorDefault(w, v) ==
  [w EXCEPT !.vec[v] = [alive |-> TRUE, data |-> NullRaw, size |-> 0]]

\* Vector(size_t size).
VectorSized(w, v, n) ==
  LET a == RawCtor(w, n) IN
  IF ~Ok(a) THEN a
  ELSE LET d == a.ret
           c == UninitializedValueConstruct(a, d.buffer, 0, n, 0)
       IN IF ~Ok(c) THEN RawDtor(c, d)
          ELSE [c EXCEPT !.vec[v] = [alive |-> TRUE, data |-> d, size |-> n]]

\* Vector(size_t size, const T& value).
VectorFill(w, v, n, val) ==
  LET a == RawCtor(w, n) IN
  IF ~Ok(a) THEN a
  ELSE LET d == a.ret
           c == UninitializedFillN(a, d.buffer, n, val, 0)
       IN IF ~Ok(c) THEN RawDtor(c, d)
          ELSE [c EXCEPT !.vec[v] = [alive |-> TRUE, data |-> d, size |-> n]]

\* Vector(std::initializer_list<T>) and Vector(Iter first, Iter last):
\* size_ is taken from data_.Capacity().
VectorFromList(w, v, vals) ==
  LET a == RawCtor(w, Len(vals)) IN
  IF ~Ok(a) THEN a
  ELSE LET d == a.ret
           c == UninitializedCopySeq(a, vals, d.buffer, 0, 0)
       IN IF ~Ok(c) THEN RawDtor(c, d)
          ELSE [c EXCEPT !.vec[v] = [alive |-> TRUE, data |-> d, size |-> d.capacity]]

\* A copy constructor that copies the members: both objects hold one buffer.
VectorCopyShallow(w, v, o) ==
  [w EXCEPT !.vec[v] = [alive |-> TRUE, data |-> w.vec[o].data, size |-> Size(w, o)]]

\* Vector(const Vector& other).
VectorCopy(w, v, o) ==
  LET a == RawCtor(w, Size(w, o)) IN
  IF ~Ok(a) THEN a
  ELSE LET d == a.ret
           c == UninitializedCopy(a, Buf(a, o), 0, Size(a, o), d.buffer, 0, 0)
       IN IF ~Ok(c) THEN RawDtor(c, d)
          ELSE [c EXCEPT !.vec[v] = [alive |-> TRUE, data |-> d, size |-> Size(w, o)]]

\* A move constructor that leaves other.size_ as it was.
VectorMoveKeepsSize(w, v, o) ==
  [w EXCEPT !.vec[v] = [alive |-> TRUE, data |-> w.vec[o].data, size |-> Size(w, o)],
            !.vec[o].data = NullRaw]

\* Vector(Vector&& other): std::exchange(other.data_, {}) move-constructs the
\* old value out of other.data_, move-assigns the empty temporary to it and
\* destroys the temporary; std::exchange(other.size_, 0).
VectorMove(w, v, o) ==
  LET m == RawMoveCtor(w.vec[o].data)
      s == RawMoveAssign(m[2], NullRaw)
      t == RawDtor(w, s[2])
  IN [t EXCEPT !.vec[v] = [alive |-> TRUE, data |-> m[1], size |-> Size(w, o)],
               !.vec[o].data = s[1],
               !.vec[o].size = 0]

\* ~Vector, then ~RawMemory of data_.
VectorDtor(w, v) ==
  LET d == IF Buf(w, v) # Null THEN DestroyRange(w, Buf(w, v), 0, Size(w, v)) ELSE w
      f == RawDtor(d, w.vec[v].data)
  IN [f EXCEPT !.vec[v] = DeadVec]

\* std::swap(data_, rhs.data_): tmp(move(x)); x = move(y); y = move(tmp);
\* <<x afterwards, y afterwards, tmp before its destructor>>.
SwapData(dx, dy, same) ==
  LET m == RawMoveCtor(dx) IN
  IF same
    THEN LET s == RawMoveAssign(m[2], m[1]) IN << s[1], s[1], s[2] >>
    ELSE LET s1 == RawMoveAssign(m[2], dy)
             s2 == RawMoveAssign(s1[2], m[1])
         IN << s1[1], s2[1], s2[2] >>

\* Vector::Swap.
VectorSwap(w, v, o) ==
  LET s == SwapData(w.vec[v].data, w.vec[o].data, v = o)
      t == RawDtor(w, s[3])
  IN IF v = o THEN [t EXCEPT !.vec[v].data = s[1]]
     ELSE [t EXCEPT !.vec[v].data = s[1], !.vec[v].size = Size(w, o),
                    !.vec[o].data = s[2], !.vec[o].size = Size(w, v)]

\* Copy assignment that always copies into a new buffer and swaps.
CopyAssignAlwaysRealloc(w, v, o) ==
  IF v = o THEN w
  ELSE LET t == VectorCopy(w, "tmp", o) IN
       IF ~Ok(t) THEN t ELSE VectorDtor(VectorSwap(t, v, "tmp"), "tmp")

\* Copy assignment that sets size_ before it copies into the buffer it has.
CopyAssignSizeFirst(w, v, o) ==
  IF v = o THEN w
  ELSE IF Cap(w, v) >= Size(w, o)
    THEN LET mn == Min(Size(w, v), Size(w, o))
             z == [w EXCEPT !.vec[v].size = Size(w, o)]
             c == CopyAssignRange(z, Buf(w, o), 0, mn, Buf(w, v), 0, 0)
         IN IF ~Ok(c) THEN c
            ELSE IF Size(w, v) > Size(w, o)
              THEN DestroyRange(c, Buf(w, v), mn, Size(w, v))
              ELSE UninitializedCopy(c, Buf(w, o), mn, Size(w, o) - mn, Buf(w, v), mn, 0)
    ELSE LET t == VectorCopy(w, "tmp", o) IN
         IF ~Ok(t) THEN t ELSE VectorDtor(VectorSwap(t, v, "tmp"), "tmp")

\* Vector::operator=(const Vector& rhs).
CopyAssign(w, v, o) ==
  IF v = o THEN w
  ELSE IF Cap(w, v) >= Size(w, o)
    THEN LET mn == Min(Size(w, v), Size(w, o))
             c == CopyAssignRange(w, Buf(w, o), 0, mn, Buf(w, v), 0, 0)
         IN IF ~Ok(c) THEN c
            ELSE LET r == IF Size(w, v) > Size(w, o)
                            THEN DestroyRange(c, Buf(w, v), mn, Size(w, v))
                            ELSE UninitializedCopy(c, Buf(w, o), mn, Size(w, o) - mn,
                                                   Buf(w, v), mn, 0)
                 IN IF ~Ok(r) THEN r ELSE [r EXCEPT !.vec[v].size = Size(w, o)]
    ELSE LET t == VectorCopy(w, "tmp", o) IN
         IF ~Ok(t) THEN t ELSE VectorDtor(VectorSwap(t, v, "tmp"), "tmp")

\* Vector::operator=(Vector&& rhs).
MoveAssign(w, v, o) == IF v # o THEN VectorSwap(w, v, o) ELSE w

\* Reserve that destroys the elements before it has the new buffer.
ReserveGrowDestroyFirst(w, v, n) ==
  LET d == DestroyRange(w, Buf(w, v), 0, Size(w, v))
      a == RawCtor(d, n)
  IN IF ~Ok(a) THEN a
     ELSE RawDtor([a EXCEPT !.vec[v].data = a.ret, !.vec[v].size = 0], w.vec[v].data)

\* Reserve that allocates twice what was asked for.
ReserveGrowDouble(w, v, n) ==
  LET a == RawCtor(w, 2 * n) IN
  IF ~Ok(a) THEN a
  ELSE LET nd == a.ret
           c == UninitializedCopy(a, Buf(w, v), 0, Size(w, v), nd.buffer, 0, 0)
       IN IF ~Ok(c) THEN RawDtor(c, nd)
          ELSE LET d == DestroyRange(c, Buf(w, v), 0, Size(w, v))
               IN RawDtor([d EXCEPT !.vec[v].data = nd], w.vec[v].data)

\* Vector::Reserve past the capacity: new buffer, transfer, destroy the
\* originals, swap; the local new_data then frees the old block.
ReserveGrow(w, v, n) ==
  LET a == RawCtor(w, n) IN
  IF ~Ok(a) THEN a
  ELSE LET nd == a.ret
           c == OverwriteData(a, Buf(w, v), 0, Size(w, v), nd.buffer, 0)
       IN IF ~Ok(c) THEN RawDtor(c, nd)
          ELSE LET d == DestroyRange(c, Buf(w, v), 0, Size(w, v))
                   s == RawSwap(w.vec[v].data, nd)
               IN RawDtor([Log(d, "swap", nd.buffer, 0) EXCEPT !.vec[v].data = s[1]], s[2])

\* Vector::Reserve.
Reserve(w, v, n) == IF n <= Cap(w, v) THEN w ELSE ReserveGrow(w, v, n)

\* Resize that destroys the tail and forgets to set size_.
ResizeShrinkKeepsSize(w, v, n) == DestroyRange(w, Buf(w, v), n, Size(w, v))

\* Vector::Resize to fewer elements.
ResizeShrink(w, v, n) ==
  [DestroyRange(w, Buf(w, v), n, Size(w, v)) EXCEPT !.vec[v].size = n]

\* Resize past the capacity that transfers the elements before it
\* value-constructs the tail.
ResizeGrowTransferFirst(w, v, n) ==
  LET a == RawCtor(w, n) IN
  IF ~Ok(a) THEN a
  ELSE LET nd == a.ret
           c == OverwriteData(a, Buf(w, v), 0, Size(w, v), nd.buffer, 0)
       IN IF ~Ok(c) THEN RawDtor(c, nd)
          ELSE LET u == UninitializedValueConstruct(c, nd.buffer, Size(w, v), n, 0)
               IN IF ~Ok(u) THEN RawDtor(u, nd)
                  ELSE LET d == DestroyRange(u, Buf(w, v), 0, Size(w, v))
                           s == RawSwap(w.vec[v].data, nd)
                       IN [RawDtor([Log(d, "swap", nd.buffer, 0)
                                      EXCEPT !.vec[v].data = s[1]], s[2])
                             EXCEPT !.vec[v].size = n]

\* Vector::Resize past the capacity: new buffer, value-construct the tail
\* [size_, new_size) in it, then transfer the elements, destroy the
\* originals, swap.
ResizeGrow(w, v, n) ==
  LET a == RawCtor(w, n) IN
  IF ~Ok(a) THEN a
  ELSE LET nd == a.ret
           u == UninitializedValueConstruct(a, nd.buffer, Size(w, v), n, 0)
       IN IF ~Ok(u) THEN RawDtor(u, nd)
          ELSE LET c == OverwriteData(u, Buf(w, v), 0, Size(w, v), nd.buffer, 0)
               IN IF ~Ok(c) THEN RawDtor(c, nd)
                  ELSE LET d == DestroyRange(c, Buf(w, v), 0, Size(w, v))
                           s == RawSwap(w.vec[v].data, nd)
                       IN [RawDtor([Log(d, "swap", nd.buffer, 0)
                                      EXCEPT !.vec[v].data = s[1]], s[2])
                             EXCEPT !.vec[v].size = n]

\* Vector::Resize within the capacity.
ResizeInPlace(w, v, n) ==
  LET u == UninitializedValueConstruct(w, Buf(w, v), Size(w, v), n, 0)
  IN IF ~Ok(u) THEN u ELSE [u EXCEPT !.vec[v].size = n]

\* Vector::Resize.
Resize(w, v, n) ==
  IF Size(w, v) > n THEN ResizeShrink(w, v, n)
  ELSE IF n > Cap(w, v) THEN ResizeGrow(w, v, n)
  ELSE ResizeInPlace(w, v, n)

\* PopBack that forgets std::destroy_at.
PopBackNoDestroy(w, v) == [w EXCEPT !.vec[v].size = @ - 1]

\* Vector::PopBack.
PopBack(w, v) ==
  [DestroyAt(w, Buf(w, v), Size(w, v) - 1) EXCEPT !.vec[v].size = @ - 1]

\* Emplace that value-initializes the new element and drops its arguments.
ArgValueDefault(w, v, arg) == DefaultVal

\* The argument of Emplace: a value of its own, or a reference to element
\* x of the vector itself, read when the new element is constructed.
ArgValue(w, v, arg) ==
  IF arg.kind = "ref" THEN At(w, Buf(w, v), arg.x) ELSE arg.x

\* The construction T(std::forward<Args>(args)...): a copy (const T&) may
\* throw, a move (T&&) may unless T's move is noexcept.
ArgTick(w, mode) ==
  LET t == TickIf(w, mode = "copy" \/ ~IsNothrowMove) IN
  IF Ok(t) THEN Log(t, "new_value", Null, 0) ELSE t

\* Emplace with growth that makes room for the one new element only.
EmplaceGrowByOne(w, v, pos, arg, mode) ==
  LET sz == Size(w, v)
      old == Buf(w, v)
      a == RawCtor(w, sz + 1)
  IN
  IF ~Ok(a) THEN a
  ELSE LET nd == a.ret
           t == ArgTick(a, mode)
       IN IF ~Ok(t) THEN RawDtor(t, nd)
          ELSE LET e == ConstructAt(t, nd.buffer, pos, ArgValue(t, v, arg))
                   c1 == OverwriteData(e, old, 0, pos, nd.buffer, 0)
               IN IF ~Ok(c1) THEN RawDtor(c1, nd)
                  ELSE LET c2 == OverwriteData(c1, old, pos, sz - pos, nd.buffer, pos + 1)
                       IN IF ~Ok(c2) THEN RawDtor(c2, nd)
                          ELSE LET d == DestroyRange(c2, old, 0, sz)
                               IN [RawDtor([d EXCEPT !.vec[v].data = nd], w.vec[v].data)
                                     EXCEPT !.vec[v].size = sz + 1,
                                            !.it = [buffer |-> nd.buffer, offset |-> pos]]

\* Vector::Emplace when Capacity() == Size(): new buffer of max(1, 2 * size),
\* the new element first, then the elements before and after it, destroy the
\* originals, swap, ++size_.
EmplaceGrow(w, v, pos, arg, mode) ==
  LET sz == Size(w, v)
      old == Buf(w, v)
      a == RawCtor(w, IF sz = 0 THEN 1 ELSE sz * 2)
  IN
  IF ~Ok(a) THEN a
  ELSE LET nd == a.ret
           t == ArgTick(a, mode)
       IN IF ~Ok(t) THEN RawDtor(t, nd)
          ELSE LET e == ConstructAt(t, nd.buffer, pos, ArgValue(t, v, arg))
                   c1 == OverwriteData(e, old, 0, pos, nd.buffer, 0)
               IN IF ~Ok(c1) THEN RawDtor(c1, nd)
                  ELSE LET c2 == OverwriteData(c1, old, pos, sz - pos, nd.buffer, pos + 1)
                       IN IF ~Ok(c2) THEN RawDtor(c2, nd)
                          ELSE LET d == DestroyRange(c2, old, 0, sz)
                                   s == RawSwap(w.vec[v].data, nd)
                               IN [RawDtor([Log(d, "swap", nd.buffer, 0)
                                              EXCEPT !.vec[v].data = s[1]], s[2])
                                     EXCEPT !.vec[v].size = sz + 1,
                                            !.it = [buffer |-> nd.buffer, offset |-> pos]]

\* Vector::Emplace at end() with room: one construction, ++size_.
EmplaceAtEnd(w, v, arg, mode) ==
  LET sz == Size(w, v)
      t == ArgTick(w, mode)
  IN IF ~Ok(t) THEN t
     ELSE [ConstructAt(t, Buf(w, v), sz, ArgValue(t, v, arg))
             EXCEPT !.vec[v].size = sz + 1,
                    !.it = [buffer |-> Buf(w, v), offset |-> sz]]

\* Emplace before end() with room that reads its argument only when it
\* assigns to slot pos, after the shift.
EmplaceInsideLateArg(w, v, pos, arg, mode) ==
  LET sz == Size(w, v)
      old == Buf(w, v)
      t == ArgTick(w, mode)
  IN
  IF ~Ok(t) THEN t
  ELSE LET b == IF UseMove
                  THEN LET k == TickIf(t, ~IsNothrowMove) IN
                       IF ~Ok(k) THEN k
                       ELSE MoveFrom(ConstructAt(k, old, sz, At(k, old, sz - 1)),
                                     old, sz - 1)
                  ELSE LET k == Tick(t) IN
                       IF ~Ok(k) THEN k
                       ELSE ConstructAt(k, old, sz, At(k, old, sz - 1))
       IN IF ~Ok(b) THEN b
          ELSE LET mb == MoveBackward(b, old, pos, sz - 1, sz) IN
               IF ~Ok(mb) THEN mb
               ELSE LET k2 == TickIf(mb, ~IsNothrowMove) IN
                    IF ~Ok(k2) THEN k2
                    ELSE [AssignAt(k2, old, pos, ArgValue(k2, v, arg))
                            EXCEPT !.vec[v].size = sz + 1,
                                   !.it = [buffer |-> old, offset |-> pos]]

\* Vector::Emplace before end() with room: the new value in a temporary, the
\* last element moved or copied into the slot at end(), move_backward of
\* [pos, size - 1), move assignment of the temporary to slot pos, ++size_.
EmplaceInside(w, v, pos, arg, mode) ==
  LET sz == Size(w, v)
      old == Buf(w, v)
      t == ArgTick(w, mode)
  IN
  IF ~Ok(t) THEN t
  ELSE LET newValue == ArgValue(t, v, arg)
           b == IF UseMove
                  THEN LET k == TickIf(t, ~IsNothrowMove) IN
                       IF ~Ok(k) THEN k
                       ELSE MoveFrom(ConstructAt(k, old, sz, At(k, old, sz - 1)),
                                     old, sz - 1)
                  ELSE LET k == Tick(t) IN
                       IF ~Ok(k) THEN k
                       ELSE ConstructAt(k, old, sz, At(k, old, sz - 1))
       IN IF ~Ok(b) THEN b
          ELSE LET mb == MoveBackward(b, old, pos, sz - 1, sz) IN
               IF ~Ok(mb) THEN mb
               ELSE LET k2 == TickIf(mb, ~IsNothrowMove) IN
                    IF ~Ok(k2) THEN k2
                    ELSE [AssignAt(k2, old, pos, newValue)
                            EXCEPT !.vec[v].size = sz + 1,
                                   !.it = [buffer |-> old, offset |-> pos]]

\* Emplace that appends whatever the position is.
EmplaceIgnoresPos(w, v, pos, arg, mode) ==
  IF Cap(w, v) = Size(w, v) THEN EmplaceGrow(w, v, Size(w, v), arg, mode)
  ELSE EmplaceAtEnd(w, v, arg, mode)

\* Vector::Emplace at offset pos.
Emplace(w, v, pos, arg, mode) ==
  IF Cap(w, v) = Size(w, v) THEN EmplaceGrow(w, v, pos, arg, mode)
  ELSE IF pos = Size(w, v) THEN EmplaceAtEnd(w, v, arg, mode)
  ELSE EmplaceInside(w, v, pos, arg, mode)

\* Erase that destroys the last element without shifting the rest.
EraseNoShift(w, v, pos) ==
  [DestroyAt(w, Buf(w, v), Size(w, v) - 1) EXCEPT !.vec[v].size = Size(w, v) - 1]

\* Erase that also destroys the element before the vacated slot.
EraseDestroysTwo(w, v, pos) ==
  LET sz == Size(w, v)
      p == Buf(w, v)
      sh == IF UseMove THEN MoveRange(w, p, pos + 1, sz, pos)
            ELSE CopyAssignRange(w, p, pos + 1, sz - pos - 1, p, pos, 0)
  IN IF ~Ok(sh) THEN sh
     ELSE [DestroyRange(sh, p, sz - 2, sz) EXCEPT !.vec[v].size = sz - 1,
                                                 !.it = [buffer |-> p, offset |-> pos]]

\* Vector::Erase at offset pos.
Erase(w, v, pos) ==
  LET sz == Size(w, v)
      p == Buf(w, v)
      sh == IF UseMove THEN MoveRange(w, p, pos + 1, sz, pos)
            ELSE CopyAssignRange(w, p, pos + 1, sz - pos - 1, p, pos, 0)
  IN IF ~Ok(sh) THEN sh
     ELSE [DestroyAt(sh, p, sz - 1) EXCEPT !.vec[v].size = sz - 1,
                                          !.it = [buffer |-> p, offset |-> pos]]

\* ---------------------------------------------------------------- actions
SeqsUpTo(n) == UNION {[1..k -> Values] : k \in 0..n}

\* The elements of a live Vector, in order.
ContentsIn(h, r) == [i \in 1..r.size |-> h[r.data.buffer][i]]
Contents(v) == ContentsIn(heap, vec[v])

NoArg == [kind |-> "none", x |-> 0]
Num(n) == [kind |-> "n", x |-> n]
Val(x) == [kind |-> "val", x |-> x]
Ref(i) == [kind |-> "ref", x |-> i]

\* The machine an operation starts on, under fault f.
Start(f) == World(heap, vec, IF f = AllocFault THEN 0 ELSE f, f = AllocFault)

\* The fault was used: an operation that runs fewer element operations than
\* the fault counts is the same call as under fault 0.
Used(w, f) == f = 0 \/ ~Ok(w)

\* Between calls last is NoLast; a call starts then.
NoLast ==
  [op |-> "none", v |-> "a", o |-> "a", path |-> "", arg |-> NoArg, pos |-> 0,
   fault |-> 0, exc |-> "none", leaked |-> 0, dd |-> FALSE, df |-> FALSE,
   log |-> << >>, it |-> NoIter, heap0 |-> << >>, vec0 |-> << >>, raw0 |-> << >>]
Idle == last.op = "none"

\* The operation's result becomes the next state; last records the call: the
\* operation, its objects, the branch it took, its arguments, how it ended,
\* its events, the iterator it returned, and the heap and the objects as they
\* were before it.
Finish(w, f, op, v, o, path, arg, pos) ==
  /\ Used(w, f)
  /\ \A x \in VecNames : w.vec[x].data.capacity <= capLimit
  /\ heap' = w.heap
  /\ vec' = w.vec
  /\ last' = [op |-> op, v |-> v, o |-> o, path |-> path, arg |-> arg, pos |-> pos,
              fault |-> f, exc |-> w.exc, leaked |-> w.leaked, dd |-> w.dd,
              df |-> w.df, log |-> w.log, it |-> w.it,
              heap0 |-> heap, vec0 |-> vec, raw0 |-> raw]
  /\ UNCHANGED << raw, ttype, objs, capLimit >>

\* The caller has seen how the call ended: the record of it is dropped, the
\* program's state stays.
Forget ==
  /\ ~Idle
  /\ last' = NoLast
  /\ UNCHANGED << heap, vec, raw, ttype, objs, capLimit >>

\* The branch each operation takes, decided by the state before the call.
ReservePath(v, n) == IF n <= vec[v].data.capacity THEN "noop" ELSE "grow"
ResizePath(v, n) ==
  IF vec[v].size > n THEN "shrink"
  ELSE IF n > vec[v].data.capacity THEN "grow" ELSE "inplace"
EmplacePath(v, pos) ==
  IF vec[v].data.capacity = vec[v].size THEN "grow"
  ELSE IF pos = vec[v].size THEN "end" ELSE "mid"
AssignPath(v, o) ==
  IF v = o THEN "self"
  ELSE IF vec[v].data.capacity >= vec[o].size THEN "reuse" ELSE "realloc"

Alive(v) == Idle /\ vec[v].alive
Dead(v) == Idle /\ ~vec[v].alive

ConstructDefault(v) ==
  /\ Dead(v)
  /\ Finish(VectorDefault(Start(0), v), 0, "ConstructDefault", v, v, "", NoArg, 0)

ConstructSized(v, n, f) ==
  /\ Dead(v)
  /\ Finish(VectorSized(Start(f), v, n), f, "ConstructSized", v, v, "", Num(n), 0)

ConstructFill(v, n, x, f) ==
  /\ Dead(v) /\ IsCopyable
  /\ Finish(VectorFill(Start(f), v, n, x), f, "ConstructFill", v, v, "", Num(n), 0)

ConstructFromList(v, vals, f) ==
  /\ Dead(v) /\ IsCopyable
  /\ Finish(VectorFromList(Start(f), v, vals), f, "ConstructFromList", v, v, "",
            Num(Len(vals)), 0)

ConstructCopy(v, o, f) ==
  /\ Dead(v) /\ Alive(o) /\ IsCopyable
  /\ Finish(VectorCopy(Start(f), v, o), f, "ConstructCopy", v, o, "", NoArg, 0)

ConstructMove(v, o) ==
  /\ Dead(v) /\ Alive(o)
  /\ Finish(VectorMove(Start(0), v, o), 0, "ConstructMove", v, o, "", NoArg, 0)

Destroy(v) ==
  /\ Alive(v)
  /\ Finish(VectorDtor(Start(0), v), 0, "Destroy", v, v, "", NoArg, 0)

AssignCopy(v, o, f) ==
  /\ Alive(v) /\ Alive(o) /\ IsCopyable
  /\ Finish(CopyAssign(Start(f), v, o), f, "AssignCopy", v, o, AssignPath(v, o), NoArg, 0)

AssignMove(v, o) ==
  /\ Alive(v) /\ Alive(o)
  /\ Finish(MoveAssign(Start(0), v, o), 0, "AssignMove", v, o, "", NoArg, 0)

DoSwap(v, o) ==
  /\ Alive(v) /\ Alive(o)
  /\ Finish(VectorSwap(Start(0), v, o), 0, "Swap", v, o, "", NoArg, 0)

DoReserve(v, n, f) ==
  /\ Alive(v)
  /\ Finish(Reserve(Start(f), v, n), f, "Reserve", v, v, ReservePath(v, n), Num(n), 0)

DoResize(v, n, f) ==
  /\ Alive(v)
  /\ Finish(Resize(Start(f), v, n), f, "Resize", v, v, ResizePath(v, n), Num(n), 0)

\* PushBack(const T&) (mode "copy") and PushBack(T&&) (mode "move"):
\* EmplaceBack, that is Emplace at end().
DoPushBack(v, x, mode, f) ==
  /\ Alive(v) /\ (mode = "copy" => IsCopyable)
  /\ Finish(Emplace(Start(f), v, vec[v].size, Val(x), mode), f, "PushBack", v, v,
            EmplacePath(v, vec[v].size), Val(x), vec[v].size)

DoPopBack(v) ==
  /\ Alive(v) /\ vec[v].size # 0
  /\ Finish(PopBack(Start(0), v), 0, "PopBack", v, v, "", NoArg, 0)

\* Insert(it, const T&) (mode "copy", the argument possibly an element of the
\* vector itself) and Insert(it, T&&) (mode "move").
DoInsert(v, pos, arg, mode, f) ==
  /\ Alive(v) /\ pos <= vec[v].size /\ (mode = "copy" => IsCopyable)
  /\ arg.kind = "ref" => mode = "copy" /\ arg.x < vec[v].size
  /\ Finish(Emplace(Start(f), v, pos, arg, mode), f, "Insert", v, v,
            EmplacePath(v, pos), arg, pos)

DoErase(v, pos, f) ==
  /\ Alive(v) /\ pos < vec[v].size
  /\ Finish(Erase(Start(f), v, pos), f, "Erase", v, v, "", NoArg, pos)

\* Erase(begin() + p) called right after Insert(begin() + p, x) returned:
\* last then records the two calls as one, with the state before the Insert.
DoEraseAfterInsert ==
  /\ last.op = "Insert" /\ last.exc = "none"
  /\ LET w == Erase(World(heap, vec, 0, FALSE), last.v, last.pos) IN
     /\ heap' = w.heap
     /\ vec' = w.vec
     /\ last' = [last EXCEPT !.op = "InsertErase", !.exc = w.exc,
                             !.leaked = @ + w.leaked, !.dd = @ \/ w.dd,
                             !.df = @ \/ w.df, !.log = @ \o w.log, !.it = w.it]
  /\ UNCHANGED << raw, ttype, objs, capLimit >>

InsertArgs == {Val(x) : x \in Values} \cup {Ref(i) : i \in 0..(MaxCap - 1)}
Modes == {"copy", "move"}

\* Stand-alone RawMemory objects.
FinishRaw(w, f, op, r, o, n, rs) ==
  /\ Used(w, f)
  /\ heap' = w.heap
  /\ raw' = rs
  /\ last' = [op |-> op, v |-> r, o |-> o, path |-> "", arg |-> Num(n), pos |-> 0,
              fault |-> f, exc |-> w.exc, leaked |-> w.leaked, dd |-> w.dd,
              df |-> w.df, log |-> w.log, it |-> w.it,
              heap0 |-> heap, vec0 |-> vec, raw0 |-> raw]
  /\ UNCHANGED << vec, ttype, objs, capLimit >>

Handle(d) == [alive |-> TRUE, buffer |-> d.buffer, capacity |-> d.capacity]
Data(r) == [buffer |-> raw[r].buffer, capacity |-> raw[r].capacity]

\* RawMemory().
RawConstructDefault(r) ==
  /\ ~raw[r].alive
  /\ FinishRaw(Start(0), 0, "RawConstructDefault", r, r, 0,
               [raw EXCEPT ![r] = Handle(NullRaw)])

\* RawMemory(size_t capacity); no object when operator new throws.
RawConstruct(r, n, f) ==
  /\ ~raw[r].alive
  /\ LET w == RawCtor(Start(f), n) IN
     FinishRaw(w, f, "RawConstruct", r, r, n,
               IF Ok(w) THEN [raw EXCEPT ![r] = Handle(w.ret)] ELSE raw)

\* RawMemory(RawMemory&& other).
RawConstructMove(r, o) ==
  /\ ~raw[r].alive /\ raw[o].alive
  /\ LET m == RawMoveCtor(Data(o)) IN
     FinishRaw(Start(0), 0, "RawConstructMove", r, o, 0,
               [raw EXCEPT ![r] = Handle(m[1]), ![o] = Handle(m[2])])

\* operator=(RawMemory&& rhs): nothing for this == &rhs, else Swap.
RawAssignMove(r, o) ==
  /\ raw[r].alive /\ raw[o].alive
  /\ LET s == RawMoveAssign(Data(r), Data(o)) IN
     FinishRaw(Start(0), 0, "RawAssignMove", r, o, 0,
               IF r = o THEN raw
               ELSE [raw EXCEPT ![r] = Handle(s[1]), ![o] = Handle(s[2])])

\* RawMemory::Swap.
RawDoSwap(r, o) ==
  /\ raw[r].alive /\ raw[o].alive
  /\ LET s == RawSwap(Data(r), Data(o)) IN
     FinishRaw(Start(0), 0, "RawSwap", r, o, 0,
               IF r = o THEN raw
               ELSE [raw EXCEPT ![r] = Handle(s[1]), ![o] = Handle(s[2])])

\* ~RawMemory.
RawDestroy(r) ==
  /\ raw[r].alive
  /\ FinishRaw(RawDtor(Start(0), Data(r)), 0, "RawDestroy", r, r, 0,
               [raw EXCEPT ![r] = DeadRaw])


\* ---------------------------------------------------------- specifications
InitWith(os, lim) ==
  /\ heap = [p \in Addrs |-> NoBlock]
  /\ vec = [x \in AllVecs |-> DeadVec]
  /\ raw = [r \in RawNames |-> DeadRaw]
  /\ ttype \in TTypes
  /\ objs = os
  /\ capLimit = lim
  /\ last = NoLast

\* One Vector, every operation that works on one Vector (assignment and
\* Swap are then self-assignment and self-swap).
Init == InitWith({"a"}, MaxCap)

Next ==
  \/ Idle /\ \E v \in objs : ConstructDefault(v)
  \/ Idle /\ \E v \in objs, n \in 0..capLimit, f \in Faults : ConstructSized(v, n, f)
  \/ Idle /\ \E v \in objs, n \in 0..capLimit, x \in Values, f \in Faults : ConstructFill(v, n, x, f)
  \/ Idle /\ \E v \in objs, vals \in SeqsUpTo(capLimit), f \in Faults : ConstructFromList(v, vals, f)
  \/ Idle /\ \E v \in objs : Destroy(v)
  \/ Idle /\ \E v \in objs, o \in objs, f \in Faults : AssignCopy(v, o, f)
  \/ Idle /\ \E v \in objs, o \in objs : AssignMove(v, o)
  \/ Idle /\ \E v \in objs, o \in objs : DoSwap(v, o)
  \/ Idle /\ \E v \in objs, n \in 0..capLimit, f \in Faults : DoReserve(v, n, f)
  \/ Idle /\ \E v \in objs, n \in 0..capLimit, f \in Faults : DoResize(v, n, f)
  \/ Idle /\ \E v \in objs, x \in Values, mode \in Modes, f \in Faults : DoPushBack(v, x, mode, f)
  \/ Idle /\ \E v \in objs : DoPopBack(v)
  \/ Idle /\ \E v \in objs, pos \in 0..capLimit, arg \in InsertArgs, mode \in Modes, f \in Faults :
       DoInsert(v, pos, arg, mode, f)
  \/ Idle /\ \E v \in objs, pos \in 0..capLimit, f \in Faults : DoErase(v, pos, f)
  \/ DoEraseAfterInsert
  \/ Forget

Spec == Init /\ [][Next]_vars

\* Two Vectors: the above, and construction of one from the other.
InitPair == InitWith({"a", "b"}, MaxPairCap)

NextPair ==
  \/ Next
  \/ Idle /\ \E v \in objs, o \in objs, f \in Faults : ConstructCopy(v, o, f)
  \/ Idle /\ \E v \in objs, o \in objs : ConstructMove(v, o)

SpecPair == InitPair /\ [][NextPair]_vars

\* RawMemory objects alone.
InitRaw == InitWith({}, 0)

NextRaw ==
  \/ Idle /\ \E r \in RawNames : RawConstructDefault(r)
  \/ Idle /\ \E r \in RawNames, n \in 0..MaxRawCap, f \in {0, AllocFault} : RawConstruct(r, n, f)
  \/ Idle /\ \E r \in RawNames, o \in RawNames : RawConstructMove(r, o)
  \/ Idle /\ \E r \in RawNames, o \in RawNames : RawAssignMove(r, o)
  \/ Idle /\ \E r \in RawNames, o \in RawNames : RawDoSwap(r, o)
  \/ Idle /\ \E r \in RawNames : RawDestroy(r)
  \/ Forget

SpecRaw == InitRaw /\ [][NextRaw]_vars


\* ------------------------------------------------------------------ claims
\* What the last call worked on, before and after.
Called(op) == last.op = op
Returned == ~Idle /\ last.exc = "none"
Threw(e) == ~Idle /\ last.exc = e
Before(v) == last.vec0[v]
After(v) == vec[v]
ContentsBefore(v) == ContentsIn(last.heap0, last.vec0[v])

\* A Vector object r on heap h: 0 <= size <= capacity, the buffer is a block
\* of capacity slots (none for capacity 0), slots [0, size) hold constructed
\* elements and slots [size, capacity) are raw memory.
WellFormed(h, r) ==
  /\ 0 <= r.size /\ r.size <= r.data.capacity
  /\ (r.data.capacity = 0) <=> (r.data.buffer = Null)
  /\ r.data.buffer # Null => Len(h[r.data.buffer]) = r.data.capacity
  /\ \A i \in 1..r.size : h[r.data.buffer][i] # Raw
  /\ \A i \in (r.size + 1)..r.data.capacity : h[r.data.buffer][i] = Raw

\* Every live Vector is well formed and no two share a buffer.
AllWellFormed(h, vs) ==
  /\ \A x \in VecNames : vs[x].alive => WellFormed(h, vs[x])
  /\ \A x, y \in VecNames :
       (x # y /\ vs[x].alive /\ vs[y].alive /\ vs[x].data.buffer # Null)
         => vs[x].data.buffer # vs[y].data.buffer

\* C1: every operation that returns normally, started on well-formed Vectors,
\* leaves every Vector well formed: 0 <= Size() <= Capacity(), slots
\* [0, Size()) constructed, slots [Size(), Capacity()) uninitialized.  With
\* the initial state (no Vector yet) this gives the claim for every sequence
\* of successfully completed operations.
C1_SuccessKeepsWellFormed ==
  /\ Idle /\ (\A x \in VecNames : ~vec[x].alive) => AllWellFormed(heap, vec)
  /\ Returned /\ AllWellFormed(last.heap0, last.vec0) => AllWellFormed(heap, vec)

\* A copy assignment into a buffer with room returned, and left raw slots
\* behind the elements.
C1_Witness ==
  /\ Returned /\ Called("AssignCopy") /\ last.path = "reuse"
  /\ AllWellFormed(last.heap0, last.vec0)
  /\ Before(last.v).size = 2 /\ After(last.v).size = 1 /\ After(last.v).data.capacity = 2

\* C2: every element ever constructed is destroyed exactly once, also when an
\* element operation throws during a transfer: no call frees a block that
\* still holds constructed elements or constructs over a live element
\* (leaked), and none destroys or reads raw memory (dd).
C2_EveryElementDestroyedOnce == last.leaked = 0 /\ ~last.dd

\* The RawMemory objects that own block p: the live stand-alone ones and the
\* data_ of the live Vectors.
Owners(p) ==
  {r \in RawNames : raw[r].alive /\ raw[r].buffer = p}
    \cup {x \in AllVecs : vec[x].alive /\ vec[x].data.buffer = p}
Allocated == {p \in Addrs : heap[p] # NoBlock}
SingleOwner == \A p \in Allocated : Cardinality(Owners(p)) = 1

\* No block was freed twice, and once no owner is left no block is.
FreedOnce ==
  /\ ~last.df
  /\ (\A r \in RawNames : ~raw[r].alive) /\ (\A x \in AllVecs : ~vec[x].alive)
       => Allocated = {}

\* The object a move construction or a move assignment from another object
\* took its value from.
MovedFrom == (Called("RawConstructMove") \/ Called("RawAssignMove")) /\ last.v # last.o
IsNull(r) == r.buffer = Null /\ r.capacity = 0

Unchanged(v) == After(v) = Before(v) /\ Contents(v) = ContentsBefore(v)

\* C4: when operator new throws in Reserve, Resize, PushBack, Insert or copy
\* assignment, the exception reaches the caller and the Vector (and the
\* Vector assigned from) is as it was.
C4_AllocFailureChangesNothing ==
  (Threw("bad_alloc") /\ last.op \in {"Reserve", "Resize", "PushBack", "Insert", "AssignCopy"})
    => Unchanged(last.v) /\ Unchanged(last.o) /\ heap = last.heap0

\* operator new threw in a copy assignment to a Vector that holds an element
\* and is too small for the source.
C4_Witness ==
  /\ Threw("bad_alloc") /\ Called("AssignCopy") /\ last.path = "realloc"
  /\ Before(last.v).size = 1 /\ Before(last.o).size = 2

\* C5: for copyable T whose move may throw, an element operation that throws
\* in Reserve, in Resize past the capacity or in PushBack/Insert with growth
\* leaves the Vector's length, capacity, buffer address and elements as they
\* were.
C5_CopyTransferIsStrong ==
  (/\ ttype = "ThrowingMove" /\ Threw("elem")
   /\ \/ Called("Reserve") /\ last.path = "grow"
      \/ Called("Resize") /\ last.path = "grow"
      \/ last.op \in {"PushBack", "Insert"} /\ last.path = "grow")
    => Unchanged(last.v)

\* The copy of the second of two elements threw in an Insert with growth,
\* after the new element and the first element were in the new buffer.
C5_Witness ==
  /\ ttype = "ThrowingMove" /\ Threw("elem") /\ Called("Insert") /\ last.path = "grow"
  /\ Before(last.v).size = 2 /\ last.pos = 1 /\ last.fault = 3
  /\ ContentsBefore(last.v) = << 1, 0 >>

\* C6: when the k-th element copy throws in the copy constructor, the k - 1
\* elements constructed are destroyed and the buffer is freed (the heap is
\* what it was, nothing leaked), there is no destination object, and the
\* source has its length and its elements.
C6_CopyConstructUnwinds ==
  (Called("ConstructCopy") /\ Threw("elem"))
    => /\ ~vec[last.v].alive
       /\ heap = last.heap0
       /\ last.leaked = 0 /\ ~last.dd /\ ~last.df
       /\ Unchanged(last.o)

\* The second copy of a two-element source threw.
C6_Witness ==
  /\ Called("ConstructCopy") /\ Threw("elem") /\ last.fault = 2
  /\ Before(last.o).size = 2 /\ Contents(last.o) = << 0, 1 >>

\* C7: a PushBack that returns appends its value: the length grows by one
\* and the elements are the former ones, in order, then the value.  From an
\* empty Vector, after n pushes Size() is n and element i is the i-th value.
C7_PushBackAppends ==
  (Called("PushBack") /\ Returned)
    => /\ After(last.v).size = Before(last.v).size + 1
       /\ Contents(last.v) = Append(ContentsBefore(last.v), last.arg.x)

\* The third push reallocated a Vector of two distinct elements.
C7_Witness ==
  /\ Called("PushBack") /\ Returned /\ last.path = "grow"
  /\ Contents(last.v) = << 1, 0, 1 >>

\* C8: Resize(k) that returns ends with Size() == k; for k below the length
\* the first k elements, the capacity and the buffer are unchanged; for k
\* above it the former elements are unchanged, the new ones are the default
\* value and the capacity is max(old capacity, k).
C8_Resize ==
  (Called("Resize") /\ Returned) =>
    LET k == last.arg.x
        old == Before(last.v)
        new == After(last.v)
    IN /\ new.size = k
       /\ k < old.size =>
            /\ Contents(last.v) = SubSeq(ContentsBefore(last.v), 1, k)
            /\ new.data = old.data
       /\ k > old.size =>
            /\ SubSeq(Contents(last.v), 1, old.size) = ContentsBefore(last.v)
            /\ \A i \in (old.size + 1)..k : Contents(last.v)[i] = DefaultVal
            /\ new.data.capacity = IF old.data.capacity >= k THEN old.data.capacity ELSE k

\* Resize(4) on a full Vector of two elements.
C8_Witness ==
  /\ Called("Resize") /\ Returned /\ last.path = "grow" /\ last.arg.x = 4
  /\ Contents(last.v) = << 1, 1, 0, 0 >>

\* C9: Reserve(c) with c <= Capacity() changes nothing; Reserve(c) with
\* c > Capacity() keeps the length and the elements and makes the capacity c.
C9_Reserve ==
  (Called("Reserve") /\ Returned) =>
    LET c == last.arg.x IN
    /\ c <= Before(last.v).data.capacity => Unchanged(last.v) /\ heap = last.heap0
    /\ c > Before(last.v).data.capacity =>
         /\ After(last.v).size = Before(last.v).size
         /\ Contents(last.v) = ContentsBefore(last.v)
         /\ After(last.v).data.capacity = c

\* Reserve(3) on a full Vector of two elements.
C9_Witness ==
  /\ Called("Reserve") /\ Returned /\ last.path = "grow" /\ last.arg.x = 3
  /\ Contents(last.v) = << 0, 1 >> /\ After(last.v).data.capacity = 3

\* C10: Insert(begin() + p, x) then Erase(begin() + p) gives back the length
\* and the elements there were before the Insert.
C10_InsertEraseRoundTrip ==
  Called("InsertErase") =>
    /\ last.exc = "none"
    /\ After(last.v).size = Before(last.v).size
    /\ Contents(last.v) = ContentsBefore(last.v)

\* The Insert was in the middle of a full Vector of two elements, so it
\* reallocated.
C10_Witness ==
  /\ Called("InsertErase") /\ last.path = "grow" /\ last.pos = 1
  /\ ContentsBefore(last.v) = << 1, 0 >> /\ last.arg = Val(1)

\* The events of the last call of the given kinds.
EventsOf(kinds) == {i \in 1..Len(last.log) : last.log[i].e \in kinds}
ElementEvents == EventsOf({"construct", "destroy", "assign", "move_from", "new_value"})

\* B is a copy of A: the same length and the same element values in order, in
\* a block of its own.
IsCopyOf(b, a) ==
  /\ vec[b].size = vec[a].size
  /\ Contents(b) = Contents(a)
  /\ vec[b].data.buffer # Null => vec[b].data.buffer # vec[a].data.buffer

\* C11: after a copy construction or a copy assignment of B from A, B has A's
\* length and elements in a block that is not A's; and a call on other
\* Vectors, however it ends, leaves a Vector that is not among its objects
\* with its length, capacity, buffer and elements, so no sequence of calls on
\* B changes A.
C11_CopyIsIndependent ==
  /\ (Returned /\ last.op \in {"ConstructCopy", "AssignCopy"} /\ last.v # last.o)
       => IsCopyOf(last.v, last.o) /\ Unchanged(last.o)
  /\ \A x \in VecNames :
       (~Idle /\ x \notin {last.v, last.o} /\ Before(x).alive) => Unchanged(x)

\* B, equal to A element by element, was pushed to and reallocated.
C11_Witness ==
  /\ Returned /\ Called("PushBack") /\ last.v = "b" /\ last.path = "grow"
  /\ Before("a").alive /\ Before("a").size = 1
  /\ ContentsBefore("b") = ContentsBefore("a")
  /\ Before("b").data.buffer # Before("a").data.buffer
  /\ Contents("a") = << 1 >> /\ Contents("b") = << 1, 0 >>

\* The two objects of a move between distinct Vectors.
MovedInto == last.op \in {"ConstructMove", "AssignMove"} /\ last.v # last.o
\* B holds what A held: the buffer, the capacity, the length, the elements,
\* and no element was constructed, assigned or destroyed on the way.
TookOver(b, a) ==
  /\ After(b).data = Before(a).data
  /\ After(b).size = Before(a).size
  /\ Contents(b) = ContentsBefore(a)
  /\ ElementEvents = {}
  /\ heap = last.heap0

\* C12 as claimed: a move construction or a move assignment of B from A
\* leaves A with length 0 and capacity 0 and B with A's former elements, no
\* element operation run.
C12_MoveEmptiesSource ==
  MovedInto =>
    /\ After(last.o).size = 0 /\ After(last.o).data.capacity = 0
    /\ TookOver(last.v, last.o)

\* C12 as amended: B takes over A's elements with no element operation run; a
\* move construction leaves A with length 0 and capacity 0, a move assignment
\* leaves A with the buffer, capacity, length and elements B had (Swap), and
\* a move assignment of a Vector to itself changes nothing.
C12_MoveTakesOverOrSwaps ==
  /\ MovedInto => TookOver(last.v, last.o)
  /\ (MovedInto /\ Called("ConstructMove")) =>
       After(last.o).size = 0 /\ After(last.o).data = NullRaw
  /\ (MovedInto /\ Called("AssignMove")) =>
       /\ After(last.o).data = Before(last.v).data
       /\ After(last.o).size = Before(last.v).size
       /\ Contents(last.o) = ContentsBefore(last.v)
  /\ (Called("AssignMove") /\ last.v = last.o) =>
       Unchanged(last.v) /\ heap = last.heap0

\* A move assignment between two Vectors that both held elements.
C12_Witness ==
  /\ Called("AssignMove") /\ last.v # last.o
  /\ ContentsBefore(last.v) = << 0 >> /\ ContentsBefore(last.o) = << 1, 1 >>

\* C13: for a copyable T whose move may throw, Reserve, Resize, PushBack,
\* Insert (with or without growth, the shift in the middle included) and
\* Erase never move from an element of the Vector: the elements are
\* transferred and shifted by copy only.
C13_ExistingElementsOnlyCopied ==
  (ttype = "ThrowingMove" /\ last.op \in {"Reserve", "Resize", "PushBack", "Insert", "Erase"})
    => EventsOf({"move_from"}) = {}

\* The value the last Insert was given: its argument, or for a reference to
\* an element of the Vector the value that element had before the call.
InsertedValue ==
  IF last.arg.kind = "ref" THEN ContentsBefore(last.v)[last.arg.x + 1] ELSE last.arg.x
\* s with x put in at offset p, and s with the element at offset p taken out.
Inserted(s, p, x) == SubSeq(s, 1, p) \o << x >> \o SubSeq(s, p + 1, Len(s))
Removed(s, p) == SubSeq(s, 1, p) \o SubSeq(s, p + 2, Len(s))
\* The iterator begin() + p of the Vector as it is now.
BeginPlus(v, p) == [buffer |-> After(v).data.buffer, offset |-> p]

\* C14: Insert of x at offset p into contents s, on each of the three paths,
\* gives length |s| + 1 and the elements s[0..p), x, s[p..|s|), and returns
\* begin() + p of the buffer the Vector then has.
C14_InsertPutsValueAtPosition ==
  (Called("Insert") /\ Returned) =>
    /\ After(last.v).size = Before(last.v).size + 1
    /\ Contents(last.v) = Inserted(ContentsBefore(last.v), last.pos, InsertedValue)
    /\ last.it = BeginPlus(last.v, last.pos)

\* An Insert in the middle of three elements, with room.
C14_Witness ==
  /\ Called("Insert") /\ Returned /\ last.path = "mid" /\ last.pos = 1
  /\ ContentsBefore(last.v) = << 0, 1, 1 >> /\ last.arg = Val(0)
  /\ Contents(last.v) = << 0, 0, 1, 1 >>

\* C15: a PushBack or Insert that returns changes the capacity exactly when
\* Size() == Capacity() before it, and then to max(1, 2 * Size()); otherwise
\* the capacity and the buffer are unchanged.  So the capacity never
\* decreases, and pushing to an empty Vector gives capacities 0, 1, 2, 4, ...
C15_GrowthDoubles ==
  (last.op \in {"PushBack", "Insert"} /\ Returned) =>
    LET old == Before(last.v)
        new == After(last.v)
    IN /\ old.size = old.data.capacity =>
            /\ new.data.capacity = (IF old.size = 0 THEN 1 ELSE 2 * old.size)
            /\ new.data.capacity # old.data.capacity
       /\ old.size # old.data.capacity => new.data = old.data
       /\ new.data.capacity >= old.data.capacity

\* The third push to a Vector that was filled by two: capacity 2 to 4.
C15_Witness ==
  /\ Called("PushBack") /\ Returned
  /\ Before(last.v).size = 2 /\ Before(last.v).data.capacity = 2
  /\ After(last.v).data.capacity = 4 /\ After(last.v).size = 3

\* C16: Erase at offset p of contents s gives length |s| - 1 and the
\* elements s[0..p), s[p+1..|s|); the one element destroyed is the last slot
\* that was in use; capacity and buffer are unchanged; the iterator returned
\* is begin() + p, which is end() when the last element was erased.
C16_Erase ==
  (Called("Erase") /\ Returned) =>
    LET old == Before(last.v)
        d == EventsOf({"destroy"})
    IN /\ After(last.v).size = old.size - 1
       /\ Contents(last.v) = Removed(ContentsBefore(last.v), last.pos)
       /\ Cardinality(d) = 1
       /\ \A i \in d : last.log[i] = Ev("destroy", old.data.buffer, old.size - 1)
       /\ After(last.v).data = old.data
       /\ last.it = BeginPlus(last.v, last.pos)
       /\ last.pos = old.size - 1 => last.it.offset = After(last.v).size

\* The first of three elements erased.
C16_Witness ==
  /\ Called("Erase") /\ Returned /\ last.pos = 0
  /\ ContentsBefore(last.v) = << 1, 0, 1 >> /\ Contents(last.v) = << 0, 1 >>

\* C17: a copy assignment dst = src between distinct Vectors that returns
\* leaves dst with src's length and elements and src as it was; with
\* Capacity() >= src.Size() before, dst keeps its buffer and capacity and
\* nothing is allocated; otherwise dst's capacity becomes src.Size().  A copy
\* assignment of a Vector to itself changes nothing.
C17_CopyAssign ==
  /\ (Called("AssignCopy") /\ Returned /\ last.v # last.o) =>
       LET dst == Before(last.v)
           src == Before(last.o)
       IN /\ After(last.v).size = src.size
          /\ Contents(last.v) = ContentsBefore(last.o)
          /\ Unchanged(last.o)
          /\ dst.data.capacity >= src.size =>
               After(last.v).data = dst.data /\ EventsOf({"allocate"}) = {}
          /\ dst.data.capacity < src.size => After(last.v).data.capacity = src.size
  /\ (Called("AssignCopy") /\ last.v = last.o) =>
       /\ Returned /\ Unchanged(last.v) /\ heap = last.heap0 /\ last.log = << >>

\* One element assigned into a Vector of capacity 2 that held none.
C17_Witness ==
  /\ Called("AssignCopy") /\ Returned /\ last.path = "reuse"
  /\ Before(last.v).size = 0 /\ Before(last.v).data.capacity = 2
  /\ Contents(last.v) = << 1 >> /\ After(last.v).data.capacity = 2

\* C20: when an element copy throws in a copy assignment into the buffer dst
\* has (Capacity() >= src.Size()), dst keeps its length, capacity and buffer,
\* slots [0, Size()) hold elements and the slots behind are raw, nothing is
\* leaked or destroyed twice, src is as it was, and each element of dst has
\* the value it had or the value of the element of src at its offset.  The
\* Vectors are well formed when the assignment starts.
C20_ReuseFailureIsMixedState ==
  (/\ Called("AssignCopy") /\ last.path = "reuse" /\ Threw("elem")
   /\ AllWellFormed(last.heap0, last.vec0)) =>
    /\ After(last.v) = Before(last.v)
    /\ WellFormed(heap, After(last.v))
    /\ last.leaked = 0 /\ ~last.dd /\ ~last.df
    /\ Unchanged(last.o)
    /\ \A i \in 1..After(last.v).size :
         \/ Contents(last.v)[i] = ContentsBefore(last.v)[i]
         \/ i <= Before(last.o).size /\ Contents(last.v)[i] = ContentsBefore(last.o)[i]

\* The second assignment threw: dst has one value of src and one of its own.
C20_Witness ==
  /\ Called("AssignCopy") /\ last.path = "reuse" /\ Threw("elem") /\ last.fault = 2
  /\ AllWellFormed(last.heap0, last.vec0)
  /\ ContentsBefore(last.v) = << 0, 0 >> /\ ContentsBefore(last.o) = << 1, 1 >>
  /\ Contents(last.v) = << 1, 0 >>

\* The events of a Resize past the capacity: the allocation of the new
\* buffer, the constructions in it of the tail [old length, k) and of the
\* transferred elements [0, old length), and the swap of the buffers.
ResizeGrew == Called("Resize") /\ last.path = "grow"
TailEvents == {i \in EventsOf({"construct"}) : last.log[i].i >= Before(last.v).size}
TransferEvents == {i \in EventsOf({"construct"}) : last.log[i].i < Before(last.v).size}
AllBefore(I, J) == \A i \in I, j \in J : i < j

\* C18 as claimed: in Resize(k) with k > Capacity() the new buffer is
\* allocated, then the elements are transferred into it, then the tail is
\* value-constructed, and the buffers are swapped after that.
C18_TransferThenTail ==
  ResizeGrew =>
    /\ AllBefore(EventsOf({"allocate"}), TransferEvents)
    /\ AllBefore(TransferEvents, TailEvents)
    /\ AllBefore(TailEvents, EventsOf({"swap"}))

\* C18 as amended: the new buffer is allocated, then the tail [old length, k)
\* is value-constructed in it, then the elements are transferred into it and
\* the originals destroyed, and the buffers are swapped after the new buffer
\* holds all k elements; a call that returns has run every step.
C18_TailThenTransfer ==
  ResizeGrew =>
    /\ AllBefore(EventsOf({"allocate"}), TailEvents)
    /\ AllBefore(TailEvents, TransferEvents)
    /\ AllBefore(TransferEvents, EventsOf({"destroy", "swap"}))
    /\ AllBefore(EventsOf({"destroy"}), EventsOf({"swap"}))
    /\ Returned =>
         /\ Cardinality(EventsOf({"allocate"})) = 1
         /\ Cardinality(EventsOf({"swap"})) = 1
         /\ Cardinality(TailEvents) = last.arg.x - Before(last.v).size
         /\ Cardinality(TransferEvents) = Before(last.v).size

\* Resize(3) on a full Vector of two elements.
C18_Witness ==
  /\ ResizeGrew /\ Returned /\ last.arg.x = 3
  /\ Before(last.v).size = 2 /\ Before(last.v).data.capacity = 2
  /\ TailEvents # {} /\ TransferEvents # {}

\* C19: an Insert whose argument is a reference to an element of the Vector
\* itself puts in the value that element had before the call, on each of the
\* three paths (at end() it is PushBack(const T&) of an element): the new
\* value is constructed before any element is assigned to, moved from or
\* destroyed.
C19_SelfReferenceInsert ==
  (Called("Insert") /\ last.arg.kind = "ref" /\ Returned) =>
    /\ Contents(last.v)[last.pos + 1] = ContentsBefore(last.v)[last.arg.x + 1]
    /\ Cardinality(EventsOf({"new_value"})) = 1
    /\ AllBefore(EventsOf({"new_value"}), EventsOf({"assign", "move_from", "destroy"}))

\* The second of two elements inserted at the front, with room: the shift
\* overwrites it before slot 0 is assigned.
C19_Witness ==
  /\ Called("Insert") /\ Returned /\ last.path = "mid"
  /\ last.arg = Ref(1) /\ last.pos = 0
  /\ ContentsBefore(last.v) = << 0, 1 >> /\ Contents(last.v) = << 1, 0, 1 >>

====
